---- MODULE Spec2Model ----
(***************************************************************************)
(* Model of Lookup_Table_for_Day_Light.py: the solar declination series,   *)
(* the sunrise/sunset hour-angle computation with its polar                *)
(* classification, the "{H}h {M}m" formatter and the per-day loop of the   *)
(* yearly lookup table.                                                    *)
(*                                                                         *)
(* Numbers.  The program computes in IEEE doubles.  Here a finite double   *)
(* is a fixed-point integer: radians, hours and pure ratios carry four     *)
(* decimals (v stands for v / Scale), degrees are held in thousandths of   *)
(* a degree on input and in 1e-4 degree on output.  Every operation rounds *)
(* to the nearest representable value, as the double operation does at its *)
(* own (finer) resolution.  The non-finite doubles are kept as values of   *)
(* their own: a quotient is a record [k, v] with k in {"fin","inf","nan"}. *)
(***************************************************************************)
EXTENDS Integers, Sequences, FiniteSets, TLC

VARIABLES pc, lat_deg, year, d, end, rows, call, hours_in, rendered

vars == <<pc, lat_deg, year, d, end, rows, call, hours_in, rendered>>

\* Fixed-point resolution of the model: 1e-4.
Scale == 10^4

\* np.pi at the model's resolution (3.1416).
NP_PI == 31416

----------------------------------------------------------------------------
\* Rounded arithmetic on finite values.

\* a / b rounded to the nearest integer, b > 0.
RoundDiv(a, b) == (2 * a + b) \div (2 * b)

\* a * b / c rounded, without forming the product a * b (c > 0).
MulDiv(a, b, c) == (a \div c) * b + RoundDiv((a % c) * b, c)

\* float * float
FMul(a, b) == RoundDiv(a * b, Scale)

\* The three kinds of double a quotient can be.
Fin(v) == [k |-> "fin", v |-> v]
PosInf == [k |-> "inf", v |-> 1]
NegInf == [k |-> "inf", v |-> -1]
NaN == [k |-> "nan", v |-> 0]
Float == [k : {"fin", "inf", "nan"}, v : Int]

\* numpy float64 division: x / 0 is +-inf (nan for 0 / 0) with a warning,
\* never an exception.
FDiv[a \in Int, b \in Int] ==
    IF b = 0 THEN (IF a > 0 THEN PosInf ELSE IF a < 0 THEN NegInf ELSE NaN)
    ELSE IF b > 0 THEN Fin(RoundDiv(a * Scale, b))
    ELSE Fin(RoundDiv((0 - a) * Scale, 0 - b))

\* x <= c and x >= c for a double x and a finite c; both are false of nan.
FLe[x \in Float, c \in Int] == (x.k = "fin" /\ x.v <= c) \/ (x.k = "inf" /\ x.v < 0)
FGe[x \in Float, c \in Int] == (x.k = "fin" /\ x.v >= c) \/ (x.k = "inf" /\ x.v > 0)

----------------------------------------------------------------------------
\* numpy's elementary functions.  They are functions of the value of their
\* argument, like the library calls they stand for.

\* sin on [0, pi/4]: the Taylor series through x^11, in Horner form.
SinK[x \in Int] ==
    LET x2 == FMul(x, x)
        a5 == Scale - RoundDiv(x2, 110)
        a4 == Scale - RoundDiv(FMul(x2, a5), 72)
        a3 == Scale - RoundDiv(FMul(x2, a4), 42)
        a2 == Scale - RoundDiv(FMul(x2, a3), 20)
        a1 == Scale - RoundDiv(FMul(x2, a2), 6)
    IN  FMul(x, a1)

\* cos on [0, pi/4]: the Taylor series through x^10, in Horner form.
CosK[x \in Int] ==
    LET x2 == FMul(x, x)
        a5 == Scale - RoundDiv(x2, 90)
        a4 == Scale - RoundDiv(FMul(x2, a5), 56)
        a3 == Scale - RoundDiv(FMul(x2, a4), 30)
        a2 == Scale - RoundDiv(FMul(x2, a3), 12)
    IN  Scale - RoundDiv(FMul(x2, a2), 2)

\* sin and cos on [0, pi/2]: above pi/4 the series is taken at the complement.
SinQ[x \in Int] == IF 4 * x <= NP_PI THEN SinK[x] ELSE CosK[NP_PI \div 2 - x]
CosQ[x \in Int] == IF 4 * x <= NP_PI THEN CosK[x] ELSE SinK[NP_PI \div 2 - x]

\* An angle of [0, pi) folded into [0, pi/2].
Fold(t) == IF 2 * t <= NP_PI THEN t ELSE NP_PI - t

\* np.sin: the argument is reduced modulo 2 pi; sin(r) = -sin(r - pi) on the
\* second half turn and sin(t) = sin(pi - t) on the second quadrant.
np_sin[x \in Int] ==
    LET r == x % (2 * NP_PI)
    IN  (IF r < NP_PI THEN 1 ELSE -1) * SinQ[Fold(r % NP_PI)]

\* np.cos: the same reduction; cos(r) = -cos(r - pi), cos(t) = -cos(pi - t).
np_cos[x \in Int] ==
    LET r == x % (2 * NP_PI)
    IN  (IF r < NP_PI THEN 1 ELSE -1)
            * (IF 2 * (r % NP_PI) <= NP_PI THEN 1 ELSE -1)
            * CosQ[Fold(r % NP_PI)]

\* np.deg2rad of an angle in thousandths of a degree: x * pi / 180.
np_deg2rad[x \in Int] ==
    RoundDiv((x \div 1000) * NP_PI * 100 + RoundDiv((x % 1000) * NP_PI, 10),
             18000)

\* np.rad2deg / np.degrees: x * 180 / pi, in 1e-4 degree.
np_rad2deg[x \in Int] == MulDiv(x * 180, Scale, NP_PI)

\* cos decreases on [0, pi].  First[lo, hi, c]: the least angle of (lo, hi]
\* whose cosine is <= c, given cos(lo) > c >= cos(hi).
First[lo \in Int, hi \in Int, c \in Int] ==
    IF hi - lo <= 1 THEN hi
    ELSE IF np_cos[(lo + hi) \div 2] <= c
         THEN First[lo, (lo + hi) \div 2, c]
         ELSE First[(lo + hi) \div 2, hi, c]

\* Last[lo, hi, c]: the greatest angle of [lo, hi) whose cosine is >= c,
\* given cos(lo) >= c > cos(hi).
Last[lo \in Int, hi \in Int, c \in Int] ==
    IF hi - lo <= 1 THEN lo
    ELSE IF np_cos[(lo + hi) \div 2] >= c
         THEN Last[(lo + hi) \div 2, hi, c]
         ELSE Last[lo, (lo + hi) \div 2, c]

\* np.arccos: the inverse of cos on [0, pi], exact at the ends (arccos(1) = 0,
\* arccos(-1) = pi), the middle of the angles whose cosine rounds to the
\* argument in between; nan outside [-1, 1] and of nan.
np_arccos[x \in Float] ==
    IF x.k = "fin" /\ x.v >= 0 - Scale /\ x.v <= Scale
    THEN IF x.v = Scale THEN Fin(0)
         ELSE IF x.v = 0 - Scale THEN Fin(NP_PI)
         ELSE Fin((First[0, NP_PI, x.v] + Last[0, NP_PI, x.v]) \div 2)
    ELSE NaN

----------------------------------------------------------------------------
\* datetime.date: proleptic Gregorian dates of the years MINYEAR..MAXYEAR.

MINYEAR == 1
MAXYEAR == 9999

IsLeap(y) == y % 4 = 0 /\ (y % 100 # 0 \/ y % 400 = 0)

DaysInMonth(y, m) ==
    IF m = 2 THEN (IF IsLeap(y) THEN 29 ELSE 28)
    ELSE IF m \in {4, 6, 9, 11} THEN 30 ELSE 31

\* date(y, m, dd) returns a date exactly when this holds and raises ValueError
\* otherwise.
DateOk(y, m, dd) ==
    /\ MINYEAR <= y /\ y <= MAXYEAR
    /\ 1 <= m /\ m <= 12
    /\ 1 <= dd /\ dd <= DaysInMonth(y, m)

date(y, m, dd) == [year |-> y, month |-> m, day |-> dd]

NoDate == date(0, 0, 0)

\* a < b on dates.
DateLt(a, b) ==
    \/ a.year < b.year
    \/ a.year = b.year /\ a.month < b.month
    \/ a.year = b.year /\ a.month = b.month /\ a.day < b.day

\* x + timedelta(days=1); past date.max the addition raises OverflowError,
\* which the loop cannot reach: `end` is a date, so x < end <= date.max.
AddDay(x) ==
    IF x.day < DaysInMonth(x.year, x.month) THEN date(x.year, x.month, x.day + 1)
    ELSE IF x.month < 12 THEN date(x.year, x.month + 1, 1)
    ELSE date(x.year + 1, 1, 1)

RECURSIVE DaysBefore(_, _)
DaysBefore(y, m) == IF m = 1 THEN 0 ELSE DaysBefore(y, m - 1) + DaysInMonth(y, m - 1)

\* x.strftime("%j"): the day of the year as three decimal digits.
strftime_j(x) ==
    LET n == DaysBefore(x.year, x.month) + x.day
    IN  <<n \div 100, (n \div 10) % 10, n % 10>>

\* int(s) of a string of decimal digits.
RECURSIVE int_of(_)
int_of(s) == IF s = <<>> THEN 0 ELSE 10 * int_of(SubSeq(s, 1, Len(s) - 1)) + s[Len(s)]

day_of_year(x) == int_of(strftime_j(x))

----------------------------------------------------------------------------
\* The core computations.

\* coefficient (in 1e-6) times a sine or cosine, in 1e-6 radian.
CoefMul[c \in Int, t \in Int] == MulDiv(c, t, Scale)

\* Lines 45-54: the seven-term series in the day angle gamma, in radians.
delta_series[gamma \in Int] ==
    RoundDiv(6918
             - CoefMul[399912, np_cos[gamma]]
             + CoefMul[70257, np_sin[gamma]]
             - CoefMul[6758, np_cos[2 * gamma]]
             + CoefMul[907, np_sin[2 * gamma]]
             - CoefMul[2697, np_cos[3 * gamma]]
             + CoefMul[1480, np_sin[3 * gamma]],
             100)

\* 2.0 * np.pi * (n - 1) / days
day_angle[n \in Int, days \in Int] == RoundDiv(2 * NP_PI * (n - 1), days)

\* solar_declination_rad with the day angle over 366 days (the year length
\* of a leap year in place of the fixed 365).
solar_declination_rad_366(x) == delta_series[day_angle[day_of_year(x), 366]]

solar_declination_rad(x) == delta_series[day_angle[day_of_year(x), 365]]

\* Lines 64-69: the denominator cos(phi) * cos(delta) and the quotient cos_H0.
cos_H0_of[phi \in Int, delta \in Int, h0 \in Int] ==
    [delta |-> delta,
     den |-> FMul(np_cos[phi], np_cos[delta]),
     cos_H0 |-> FDiv[np_sin[h0] - FMul(np_sin[phi], np_sin[delta]),
                     FMul(np_cos[phi], np_cos[delta])]]

\* hour_angle without the -0.833 degree elevation correction (h0 = 0).
hour_angle_no_refraction(lat, x) ==
    cos_H0_of[np_deg2rad[lat], solar_declination_rad(x), 0]

\* hour_angle with the decimal point of the correction misplaced (-8.33).
hour_angle_slipped(lat, x) ==
    cos_H0_of[np_deg2rad[lat], solar_declination_rad(x), np_deg2rad[0 - 8330]]

\* Lines 60-69 of calculate_daylight: phi, delta and h0 in radians, then the
\* quotient.  At this resolution cos(phi) is 0 at the poles (in float64 it
\* is 6.1e-17 there), so the quotient at +-90 degrees is infinite here and
\* of magnitude 1e15 in float64: the comparisons that follow see the same.
hour_angle(lat, x) ==
    cos_H0_of[np_deg2rad[lat], solar_declination_rad(x), np_deg2rad[0 - 833]]

\* (2.0 * np.rad2deg(H0)) / 15.0
hours_of[H0 \in Float] ==
    IF H0.k = "fin" THEN Fin(RoundDiv(2 * np_rad2deg[H0.v], 15)) ELSE NaN

\* No argument: np.arccos was not called.
NoArg == [k |-> "none", v |-> 0]

\* One ended call of calculate_daylight: its locals delta, den and cos_H0,
\* the argument it handed to np.arccos (NoArg when arccos was not reached),
\* the error it raised ("none": the function has no raise statement) and the
\* returned pair.
returned(q, arg, h, c) ==
    [delta |-> q.delta, den |-> q.den, cos_H0 |-> q.cos_H0, raised |-> "none",
     arccos_arg |-> arg, hours |-> h, condition |-> c]

HourAngle == [delta : Int, den : Int, cos_H0 : Float]

\* Lines 71-80: the polar checks, then arccos.
classify[q \in HourAngle] ==
    IF FLe[q.cos_H0, 0 - Scale]
    THEN returned(q, NoArg, Fin(24 * Scale), "Polar Day")
    ELSE IF FGe[q.cos_H0, Scale]
    THEN returned(q, NoArg, Fin(0), "Polar Night")
    ELSE returned(q, q.cos_H0, hours_of[np_arccos[q.cos_H0]], "Normal Day")

\* The same without the polar checks: arccos is always taken.
classify_unchecked[q \in HourAngle] ==
    returned(q, q.cos_H0, hours_of[np_arccos[q.cos_H0]], "Normal Day")

\* The same without the cos_H0 >= 1.0 check.
classify_no_night_check[q \in HourAngle] ==
    IF FLe[q.cos_H0, 0 - Scale]
    THEN returned(q, NoArg, Fin(24 * Scale), "Polar Day")
    ELSE returned(q, q.cos_H0, hours_of[np_arccos[q.cos_H0]], "Normal Day")

\* The same with the two polar comparisons exchanged.
classify_swapped[q \in HourAngle] ==
    IF FGe[q.cos_H0, Scale]
    THEN returned(q, NoArg, Fin(24 * Scale), "Polar Day")
    ELSE IF FLe[q.cos_H0, 0 - Scale]
    THEN returned(q, NoArg, Fin(0), "Polar Night")
    ELSE returned(q, q.cos_H0, hours_of[np_arccos[q.cos_H0]], "Normal Day")

calculate_daylight_unchecked(lat, x) == classify_unchecked[hour_angle(lat, x)]

calculate_daylight_no_night_check(lat, x) ==
    classify_no_night_check[hour_angle(lat, x)]

calculate_daylight_swapped(lat, x) == classify_swapped[hour_angle(lat, x)]

calculate_daylight(lat, x) == classify[hour_angle(lat, x)]

\* np.round: to the nearest integer, a tie to the even one (x in 1e-4).
np_round(x) ==
    LET q == x \div Scale
        r == x % Scale
    IN  IF 2 * r > Scale \/ (2 * r = Scale /\ q % 2 = 1) THEN q + 1 ELSE q

\* int(x) of a finite float: truncation toward zero.
int_trunc(x) == IF x >= 0 THEN x \div Scale ELSE 0 - ((0 - x) \div Scale)

\* fmt_hours without the carry of 60 minutes into the hour.
fmt_hours_no_carry(hours) ==
    LET h == int_trunc(hours)
        m == np_round((hours - h * Scale) * 60)
    IN  [h |-> h, m |-> m,
         text |-> ToString(h) \o "h " \o ToString(m) \o "m"]

\* fmt_hours of a finite duration: the pair (h, m) and the rendered text.
fmt_hours(hours) ==
    LET h == int_trunc(hours)
        m == np_round((hours - h * Scale) * 60)
        hh == IF m = 60 THEN h + 1 ELSE h
        mm == IF m = 60 THEN 0 ELSE m
    IN  [h |-> hh, m |-> mm,
         text |-> ToString(hh) \o "h " \o ToString(mm) \o "m"]

----------------------------------------------------------------------------
\* generate_lookup_table(lat_deg, year): the state machine of one call.

\* Latitudes handed to the program, in thousandths of a degree: a grid over
\* [-90, 90] and the latitudes the requirements name.
MaxLatIdx == 9
LatStep == 10000
Latitudes ==
    {k * LatStep : k \in (0 - MaxLatIdx)..MaxLatIdx}
        \cup {0, 40000, 65500, -65500, 66000, 67500, 80000, 89000, 90000,
              -90000}

\* Years handed to generate_lookup_table.
Years == {-1, 0, 1, 1900, 2000, 2024, 9999}

NoCall == [delta |-> 0, den |-> 0, cos_H0 |-> NoArg, raised |-> "none",
           arccos_arg |-> NoArg, hours |-> NoArg, condition |-> "none"]

NoText == [h |-> 0, m |-> 0, text |-> ""]

Init ==
    /\ pc = "call"
    /\ lat_deg \in Latitudes
    /\ year \in Years
    /\ d = NoDate
    /\ end = NoDate
    /\ rows = <<>>
    /\ call = NoCall
    /\ hours_in = 0
    /\ rendered = NoText

\* Lines 19-25: the file is opened, the header written, then
\* d = date(year, 1, 1) and end = date(year + 1, 1, 1).
Begin ==
    /\ pc = "call"
    /\ DateOk(year, 1, 1) /\ DateOk(year + 1, 1, 1)
    /\ d' = date(year, 1, 1)
    /\ end' = date(year + 1, 1, 1)
    /\ pc' = "loop"
    /\ UNCHANGED <<lat_deg, year, rows, call, hours_in, rendered>>

\* Lines 24-25 when date() rejects the year: ValueError leaves the function.
BeginRaise ==
    /\ pc = "call"
    /\ ~(DateOk(year, 1, 1) /\ DateOk(year + 1, 1, 1))
    /\ pc' = "ValueError"
    /\ UNCHANGED <<lat_deg, year, d, end, rows, call, hours_in, rendered>>

\* Lines 26-31: one pass of the loop writes the record of day d.
Row ==
    /\ pc = "loop"
    /\ DateLt(d, end)
    /\ call' = calculate_daylight(lat_deg, d)
    /\ IF call'.raised # "none"
       THEN pc' = call'.raised /\ UNCHANGED <<rows, d>>
       ELSE /\ rows' = Append(rows,
                 [date |-> d,
                  doy |-> day_of_year(d),
                  declination_deg |-> np_rad2deg[solar_declination_rad(d)],
                  daylight_hours |-> call'.hours,
                  condition |-> call'.condition])
            /\ d' = AddDay(d)
            /\ pc' = "loop"
    /\ UNCHANGED <<lat_deg, year, end, hours_in, rendered>>

\* Line 26 when d = end: the loop ends, the file is closed (line 34).
Finish ==
    /\ pc = "loop"
    /\ ~DateLt(d, end)
    /\ pc' = "done"
    /\ UNCHANGED <<lat_deg, year, d, end, rows, call, hours_in, rendered>>

Next == Begin \/ BeginRaise \/ Row \/ Finish

Spec == Init /\ [][Next]_vars

----------------------------------------------------------------------------
\* fmt_hours applied to a duration (line 105 of main).

MaxHours == 24

InitFmt ==
    /\ pc = "fmt"
    /\ hours_in \in 0..(MaxHours * Scale)
    /\ lat_deg = 0
    /\ year = 0
    /\ d = NoDate
    /\ end = NoDate
    /\ rows = <<>>
    /\ call = NoCall
    /\ rendered = NoText

Format ==
    /\ pc = "fmt"
    /\ rendered' = fmt_hours(hours_in)
    /\ pc' = "fmt_done"
    /\ UNCHANGED <<lat_deg, year, d, end, rows, call, hours_in>>

NextFmt == Format

SpecFmt == InitFmt /\ [][NextFmt]_vars

----------------------------------------------------------------------------
\* Properties.

Abs(x) == IF x < 0 THEN 0 - x ELSE x

Called == call # NoCall

\* The last call returned Normal Day with a duration strictly inside (0, 24).
NormalInside ==
    /\ call.condition = "Normal Day"
    /\ call.hours.k = "fin"
    /\ 0 < call.hours.v /\ call.hours.v < 24 * Scale

\* The records written are those of every day of `year`, January 1 to
\* December 31, in order and without gap, the i-th carrying day-of-year i.
FullYear ==
    LET n == IF year % 4 = 0 /\ (year % 100 # 0 \/ year % 400 = 0)
             THEN 366 ELSE 365
    IN  /\ Len(rows) = n
        /\ rows[1].date = date(year, 1, 1)
        /\ rows[n].date = date(year, 12, 31)
        /\ \A i \in 1..n : rows[i].doy = i
        /\ \A i \in 1..(n - 1) :
              /\ DateLt(rows[i].date, rows[i + 1].date)
              /\ rows[i + 1].date = AddDay(rows[i].date)

\* C1 (as stated): for any year, when generate_lookup_table has ended its day
\* loop has written exactly 365 records (366 in a leap year), one per day from
\* January 1 to December 31 in ascending order, the i-th with day-of-year i.
C1_AsStated == pc \in {"done", "ValueError"} => FullYear

\* For the years whose loop is entered (date() accepts year and year + 1) the
\* table is the full year, and while the loop runs the records are the first
\* days of the year in order.
DayLoopOfAcceptedYear ==
    /\ pc = "done" => FullYear
    /\ pc = "loop" =>
          /\ \A i \in 1..Len(rows) : rows[i].doy = i
          /\ d = (IF rows = <<>> THEN date(year, 1, 1)
                  ELSE AddDay(rows[Len(rows)].date))

\* C2: every result of calculate_daylight has duration 24.0 exactly when the
\* condition is Polar Day, duration 0.0 exactly when it is Polar Night, and a
\* Normal Day result has a finite duration strictly between 0 and 24.
C2_ResultInvariant ==
    Called =>
        /\ call.hours = Fin(24 * Scale) <=> call.condition = "Polar Day"
        /\ call.hours = Fin(0) <=> call.condition = "Polar Night"
        /\ call.condition = "Normal Day" => NormalInside
        /\ call.condition \in {"Normal Day", "Polar Day", "Polar Night"}

\* A finished table in which all three conditions occur.
C2_Witness ==
    /\ pc = "done"
    /\ \E i \in DOMAIN rows : rows[i].condition = "Polar Day"
    /\ \E i \in DOMAIN rows : rows[i].condition = "Polar Night"
    /\ \E i \in DOMAIN rows :
          /\ rows[i].condition = "Normal Day"
          /\ rows[i].daylight_hours.k = "fin"

C4_AsStated == pc # "ValueError"

\* C5: fmt_hours of a duration in [0, 24] renders minutes in 0..59 and the
\* hour floor(hours), or floor(hours) + 1 on a carry with minutes 0; the
\* rendered time is the duration rounded to the nearest minute; 12.5 renders
\* as "12h 30m" and 5.9999 as "6h 0m".
C5_FmtHours ==
    pc = "fmt_done" =>
        LET fl == hours_in \div Scale
        IN  /\ rendered.m \in 0..59
            /\ rendered.h \in {fl, fl + 1}
            /\ rendered.h = fl + 1 =>
                  (rendered.m = 0 /\ 2 * (hours_in - fl * Scale) * 60 >= 119 * Scale)
            /\ 2 * Abs((rendered.h * 60 + rendered.m) * Scale - hours_in * 60) <= Scale
            /\ hours_in = 125000 => rendered.text = "12h 30m"
            /\ hours_in = 59999 => rendered.text = "6h 0m"
            /\ rendered.text # "5h 60m"

\* 5.9999 hours has been rendered, with the carry into the hour.
C5_Witness ==
    /\ pc = "fmt_done"
    /\ hours_in = 59999
    /\ rendered.h = 6 /\ rendered.m = 0

\* C6 (as stated): below 66.5 degrees every date is a Normal Day with a
\* duration strictly between 0 and 24.
C6_AsStated == (Called /\ Abs(lat_deg) < 66500) => NormalInside

\* C6 (amended): up to 65.5 degrees every date is a Normal Day with a
\* duration strictly between 0 and 24.
C6_Amended == (Called /\ Abs(lat_deg) <= 65500) => NormalInside

\* The whole leap year 2024 has been tabulated at 65.5 degrees North.
C6_Witness ==
    /\ pc = "done" /\ lat_deg = 65500 /\ year = 2024
    /\ Len(rows) = 366
    /\ \A i \in DOMAIN rows : rows[i].condition = "Normal Day"

\* C7 (as stated): at the equator every date is a Normal Day with a duration
\* within 0.02 hours of 12.0.
C7_AsStated ==
    (Called /\ lat_deg = 0) =>
        (NormalInside /\ 50 * Abs(call.hours.v - 12 * Scale) <= Scale)

\* C7 (amended): at the equator every date is a Normal Day with a duration
\* between 12.10 and 12.13 hours (within 0.13 hours of 12.0).
C7_Amended ==
    (Called /\ lat_deg = 0) =>
        /\ NormalInside
        /\ 10 * call.hours.v >= 121 * Scale
        /\ 100 * call.hours.v <= 1213 * Scale

\* The whole year 2024 has been tabulated at the equator.
C7_Witness ==
    /\ pc = "done" /\ lat_deg = 0 /\ year = 2024
    /\ Len(rows) = 366
    /\ rows[173].daylight_hours.k = "fin"
    /\ rows[173].daylight_hours.v > 12 * Scale

\* C8: at 80 degrees North the record of 2024-06-21 is (24.0, Polar Day) and
\* the record of 2024-12-21 is (0.0, Polar Night).
C8_Solstices ==
    lat_deg = 80000 =>
        \A i \in DOMAIN rows :
            /\ rows[i].date = date(2024, 6, 21) =>
                  /\ rows[i].daylight_hours = Fin(24 * Scale)
                  /\ rows[i].condition = "Polar Day"
            /\ rows[i].date = date(2024, 12, 21) =>
                  /\ rows[i].daylight_hours = Fin(0)
                  /\ rows[i].condition = "Polar Night"

\* Both solstice records of 2024 have been written at 80 degrees North.
C8_Witness ==
    /\ lat_deg = 80000 /\ year = 2024
    /\ \E i \in DOMAIN rows : rows[i].date = date(2024, 6, 21)
    /\ \E i \in DOMAIN rows : rows[i].date = date(2024, 12, 21)

C10_ClassifiedFirst ==
    Called =>
        /\ call.cos_H0.k # "nan"
        /\ FLe[call.cos_H0, 0 - Scale] =>
              /\ call.hours = Fin(24 * Scale) /\ call.condition = "Polar Day"
              /\ call.arccos_arg = NoArg
        /\ FGe[call.cos_H0, Scale] =>
              /\ call.hours = Fin(0) /\ call.condition = "Polar Night"
              /\ call.arccos_arg = NoArg
        /\ (~FLe[call.cos_H0, 0 - Scale] /\ ~FGe[call.cos_H0, Scale]) =>
              /\ call.arccos_arg = call.cos_H0
              /\ call.condition = "Normal Day"
        /\ call.arccos_arg # NoArg =>
              /\ call.arccos_arg.k = "fin"
              /\ 0 - Scale < call.arccos_arg.v /\ call.arccos_arg.v < Scale
              /\ call.hours.k = "fin"

\* arccos has just been taken in a year that also had both polar outcomes.
C10_Witness ==
    /\ Called
    /\ call.arccos_arg # NoArg
    /\ \E i \in DOMAIN rows : rows[i].condition = "Polar Day"
    /\ \E i \in DOMAIN rows : rows[i].condition = "Polar Night"

====
